---- MODULE Spec2Model ----
(***************************************************************************)
(* A model of QXmppStream (src/src/base/QXmppStream.cpp): the incremental  *)
(* framer of the incoming XML stream, the dispatch of its children, and    *)
(* the XEP-0198 stream management state (the map of unacknowledged         *)
(* stanzas and the two sequence counters).                                 *)
(*                                                                         *)
(* Incoming text is a sequence of tokens, each a piece of XML text that a  *)
(* transport fragment boundary may separate from its neighbours.  Outgoing *)
(* text is a string.  Everything a handler calls on its collaborators (the *)
(* socket, the logger, the virtual handleStanza / handleStream) during one *)
(* step is recorded, in call order, in trace.                              *)
(***************************************************************************)
EXTENDS Integers, Sequences, FiniteSets, TLC

VARIABLES
    dataBuffer,                  \* QString dataBuffer: tokens not yet parsed
    socket,                      \* "nullptr", or the state() of the attached socket
    streamStart,                 \* QByteArray streamStart: the captured opening tag
    streamManagementEnabled,     \* bool streamManagementEnabled
    unacknowledgedStanzas,       \* QMap<unsigned, QString>
    lastOutgoingSequenceNumber,  \* unsigned
    lastIncomingSequenceNumber,  \* unsigned
    call,                        \* the last operation run: [op, arg, ret, follows]
    trace,                       \* the calls that operation made, in order
    outstanding,                 \* history: real stanzas registered on send and not
                                 \* yet covered by an acknowledgement, in send order
    dispatchedReal,              \* history: real stanzas dispatched since the counters
                                 \* were last zeroed
    sendRun,                     \* history: [fresh, texts]; fresh while nothing but
                                 \* sendPacket has run since enableStreamManagement(true)
                                 \* on an empty map, texts the real stanzas sent since
    everEnabled,                 \* history: enableStreamManagement has been called
    feed                         \* history: [doc, rest, events]: the document the peer
                                 \* is sending, what is left of it to deliver, and the
                                 \* calls made since its delivery began; used only when
                                 \* a document is delivered in fragments

vars == <<dataBuffer, socket, streamStart, streamManagementEnabled,
          unacknowledgedStanzas, lastOutgoingSequenceNumber,
          lastIncomingSequenceNumber, call, trace, outstanding,
          dispatchedReal, sendRun, everEnabled, feed>>

(***************************************************************************)
(* Bounds of the model and constants of the program.                       *)
(***************************************************************************)
\* sendPacket registers a stanza only while lastOutgoingSequenceNumber < MaxSeq
MaxSeq == 3
\* data is received only while lastIncomingSequenceNumber stays <= MaxIncoming
MaxIncoming == 2
\* data is received only while dataBuffer holds fewer than MaxBuffer tokens
MaxBuffer == 2

(***************************************************************************)
(* Incoming text.                                                          *)
(***************************************************************************)
Tok(t, tag, h) == [t |-> t, tag |-> tag, h |-> h]
\* one whitespace character
WS == Tok("ws", "", 0)
\* "<stream:stream" with its attributes, up to but not including ">"
SOPEN == Tok("sopen", "stream", 0)
\* ">"
GT == Tok("gt", "", 0)
\* "</stream:stream"
EOPEN == Tok("eopen", "stream", 0)
\* "<tag" with its attributes, up to but not including "/>"
Open(tag, h) == Tok("head", tag, h)
\* "/>"
SC == Tok("sc", "", 0)
\* an XML declaration, "<?xml ... ?>"
DECL == Tok("decl", "", 0)

streamRootElementEnd == <<EOPEN, GT>>

\* the tokens whose text holds a ">"
HasGt(tok) == tok.t \in {"gt", "sc", "decl"}

RECURSIVE SkipWs(_, _)
SkipWs(toks, i) ==
    IF i <= Len(toks) /\ toks[i].t = "ws" THEN SkipWs(toks, i + 1) ELSE i

IsAt(toks, i, t) == i <= Len(toks) /\ toks[i].t = t

ParseFailure == [ok |-> FALSE, children |-> <<>>]

\* the root's content from position i on: empty elements and whitespace up to the
\* root's closing tag, after which only whitespace may follow; a stream:stream
\* element inside the root is an element like any other once it is closed
RECURSIVE ParseContent(_, _, _)
ParseContent(toks, i, acc) ==
    LET j == SkipWs(toks, i + 1)
        k == SkipWs(toks, j + 1)
        l == SkipWs(toks, k + 1)
    IN
    IF IsAt(toks, i, "head")
    THEN IF IsAt(toks, j, "sc")
         THEN ParseContent(toks, SkipWs(toks, j + 1),
                           Append(acc, [tagName |-> toks[i].tag, h |-> toks[i].h]))
         ELSE ParseFailure
    ELSE IF IsAt(toks, i, "sopen")
    THEN IF IsAt(toks, j, "gt") /\ IsAt(toks, k, "eopen") /\ IsAt(toks, l, "gt")
         THEN ParseContent(toks, SkipWs(toks, l + 1),
                           Append(acc, [tagName |-> "stream:stream", h |-> 0]))
         ELSE ParseFailure
    ELSE IF IsAt(toks, i, "eopen") /\ IsAt(toks, j, "gt")
              /\ SkipWs(toks, j + 1) > Len(toks)
         THEN [ok |-> TRUE, children |-> acc]
         ELSE ParseFailure

\* QDomDocument::setContent on the candidate document: whether it is well formed,
\* and the child elements of its root in document order
setContent(toks) ==
    LET i == SkipWs(toks, IF IsAt(toks, 1, "decl") THEN 2 ELSE 1)
        j == SkipWs(toks, i + 1)
    IN IF IsAt(toks, i, "sopen") /\ IsAt(toks, j, "gt")
       THEN ParseContent(toks, SkipWs(toks, j + 1), <<>>)
       ELSE ParseFailure

RECURSIVE FirstGt(_, _)
FirstGt(toks, i) ==
    IF i > Len(toks) THEN 0
    ELSE IF HasGt(toks[i]) THEN i ELSE FirstGt(toks, i + 1)

\* variant with greedy matching: cap(0) reaches to the last ">" of the buffer
startStreamRegex_Greedy(buf) ==
    LET i    == SkipWs(buf, IF IsAt(buf, 1, "decl") THEN 2 ELSE 1)
        gts  == { g \in (i + 1)..Len(buf) : HasGt(buf[g]) }
    IN IF IsAt(buf, i, "sopen") /\ gts # {}
       THEN CHOOSE g \in gts : \A x \in gts : x <= g
       ELSE 0

\* startStreamRegex, ^(<\?xml.*\?>)?\s*<stream:stream.*> with minimal matching:
\* the length of cap(0), 0 when the buffer does not match
startStreamRegex(buf) ==
    LET i == SkipWs(buf, IF IsAt(buf, 1, "decl") THEN 2 ELSE 1) IN
    IF IsAt(buf, i, "sopen") THEN FirstGt(buf, i + 1) ELSE 0

\* endStreamRegex, </stream:stream>$
endStreamRegex(buf) ==
    Len(buf) >= 2 /\ buf[Len(buf) - 1] = EOPEN /\ buf[Len(buf)] = GT

\* variant that looks only at the end of the buffer
IsWhitespacePing_LastToken(buf) ==
    buf # <<>> /\ buf[Len(buf)].t = "ws"

\* !dataBuffer.isEmpty() && dataBuffer.trimmed().isEmpty()
IsWhitespacePing(buf) ==
    buf # <<>> /\ \A i \in 1..Len(buf) : buf[i].t = "ws"

\* a variant that does not count presence stanzas
IsRealTag_WithoutPresence(tagName) == tagName \in {"message", "iq"}

\* the tag names after whose dispatch lastIncomingSequenceNumber is incremented
IsRealTag(tagName) == tagName \in {"message", "presence", "iq"}
isStreamManagementAck(el) == el.tagName = "a"
isStreamManagementReq(el) == el.tagName = "r"

(***************************************************************************)
(* Outgoing text and the calls a step makes.                               *)
(***************************************************************************)
Ev(ev, text) == [ev |-> ev, text |-> text]

closingTag == "</stream:stream>"
ReqXml == "<r xmlns='urn:xmpp:sm:3'/>"
AckXml(h) == "<a xmlns='urn:xmpp:sm:3' h='" \o ToString(h) \o "'/>"

isConnected == socket = "ConnectedState"

\* sendData(text): logs, and hands the text to the socket only when connected
sendData(text) ==
    <<Ev("logSent", text)>>
        \o (IF isConnected THEN <<Ev("sendTextMessage", text)>> ELSE <<>>)

\* what sendData can return: false when there is no connected socket, else what
\* the socket's sendTextMessage returns
sendDataReturns == IF isConnected THEN BOOLEAN ELSE {FALSE}

\* a variant with the guard inverted
sendAcknowledgementRequest_InvertedGuard(enabled) ==
    IF enabled THEN <<>> ELSE sendData(ReqXml)

\* sendAcknowledgementRequest() with the management flag as given
sendAcknowledgementRequest(enabled) ==
    IF enabled THEN sendData(ReqXml) ELSE <<>>

\* sendAcknowledgement() with the flag and the counter as given
\* variant: answers a request without looking at the flag
sendAcknowledgement_Unguarded(enabled, lastIn) == sendData(AckXml(lastIn))

sendAcknowledgement(enabled, lastIn) ==
    IF enabled THEN sendData(AckXml(lastIn)) ELSE <<>>

\* the calls of disconnectFromHost()
\* variant that sends the closing tag whatever the state of the transport
disconnectCalls_AlwaysSends ==
    IF socket = "nullptr" THEN <<>>
    ELSE sendData(closingTag) \o <<Ev("flush", ""), Ev("disconnectFromHost", "")>>

\* variant that asks the transport to disconnect before the closing tag is sent
disconnectCalls_DisconnectsFirst ==
    IF socket = "nullptr" THEN <<>>
    ELSE <<Ev("disconnectFromHost", "")>>
            \o (IF isConnected
                THEN sendData(closingTag) \o <<Ev("flush", "")>>
                ELSE <<>>)

disconnectCalls ==
    IF socket = "nullptr" THEN <<>>
    ELSE (IF isConnected
          THEN sendData(closingTag) \o <<Ev("flush", "")>>
          ELSE <<>>) \o <<Ev("disconnectFromHost", "")>>

socketAfterDisconnect ==
    IF socket = "nullptr" THEN "nullptr" ELSE "UnconnectedState"

(***************************************************************************)
(* The map of unacknowledged stanzas.                                      *)
(***************************************************************************)
EmptyMap == [k \in {} |-> ""]

\* map[key] = value
Insert(map, key, value) ==
    [k \in DOMAIN map \cup {key} |-> IF k = key THEN value ELSE map[k]]

\* QMap::erase
Erase(map, key) == [k \in DOMAIN map \ {key} |-> map[k]]

Min(S) == CHOOSE x \in S : \A y \in S : x <= y

\* the keys of a map in the order its iterator visits them
RECURSIVE KeysAscending(_)
KeysAscending(S) ==
    IF S = {} THEN <<>> ELSE <<Min(S)>> \o KeysAscending(S \ {Min(S)})

\* the loop of setAcknowledgedSequenceNumber over the keys still to visit
RECURSIVE AckLoop(_, _, _)
AckLoop(map, keys, sequenceNumber) ==
    IF keys = <<>> THEN map
    ELSE AckLoop(IF Head(keys) <= sequenceNumber THEN Erase(map, Head(keys)) ELSE map,
                 Tail(keys), sequenceNumber)

\* a variant that keeps the entry numbered sequenceNumber itself
Acknowledge_KeepsAcknowledged(map, sequenceNumber) ==
    AckLoop(map, KeysAscending(DOMAIN map), sequenceNumber - 1)

\* setAcknowledgedSequenceNumber(sequenceNumber) on a map
Acknowledge(map, sequenceNumber) ==
    AckLoop(map, KeysAscending(DOMAIN map), sequenceNumber)

\* a variant that acknowledges whatever the management flag is
handleAcknowledgement_IgnoresFlag(enabled, map, el) == Acknowledge(map, el.h)

\* handleAcknowledgement(element) on a map, with the management flag as given
handleAcknowledgement(enabled, map, el) ==
    IF enabled THEN Acknowledge(map, el.h) ELSE map

\* ++counter.  The counters are 32-bit unsigned and wrap at 2^32, which is more
\* than an integer of the model checker holds: MaxSeq and MaxIncoming keep both
\* counters below any wrap, so the increment is the plain one.
Incr(n) == n + 1

\* a variant that re-inserts every entry under the key it had
RECURSIVE RenumberLoop_KeepsKeys(_, _, _)
RenumberLoop_KeepsKeys(old, keys, st) ==
    IF keys = <<>> THEN st
    ELSE RenumberLoop_KeepsKeys(old, Tail(keys),
            [map     |-> Insert(st.map, Head(keys), old[Head(keys)]),
             lastOut |-> Incr(st.lastOut),
             calls   |-> st.calls \o sendData(old[Head(keys)])])

\* the loop of enableStreamManagement(true) over the old map's keys still to
\* visit: st is [map, lastOut, calls]
RECURSIVE RenumberLoop(_, _, _)
RenumberLoop(old, keys, st) ==
    IF keys = <<>> THEN st
    ELSE RenumberLoop(old, Tail(keys),
            [map     |-> Insert(st.map, Incr(st.lastOut), old[Head(keys)]),
             lastOut |-> Incr(st.lastOut),
             calls   |-> st.calls \o sendData(old[Head(keys)])])

\* a variant that sends the values in descending order of key
RECURSIVE ResendLoop_Descending(_, _)
ResendLoop_Descending(map, keys) ==
    IF keys = <<>> THEN <<>>
    ELSE ResendLoop_Descending(map, Tail(keys)) \o sendData(map[Head(keys)])

\* the loop of enableStreamManagement(false): sendData of every value
RECURSIVE ResendLoop(_, _)
ResendLoop(map, keys) ==
    IF keys = <<>> THEN <<>>
    ELSE sendData(map[Head(keys)]) \o ResendLoop(map, Tail(keys))

\* variant of the loop: a request is answered with the count the handler found
\* when it was entered, not with the count reached inside the document
RECURSIVE ProcessStanzas_StaleCount(_, _)
ProcessStanzas_StaleCount(children, st) ==
    IF children = <<>> THEN st
    ELSE LET nodeRecv == Head(children) IN
         ProcessStanzas_StaleCount(Tail(children),
            IF isStreamManagementAck(nodeRecv)
            THEN [st EXCEPT !.map =
                     handleAcknowledgement(streamManagementEnabled, @, nodeRecv)]
            ELSE IF isStreamManagementReq(nodeRecv)
            THEN [st EXCEPT !.calls =
                     @ \o sendAcknowledgement(streamManagementEnabled,
                                              lastIncomingSequenceNumber)]
            ELSE [st EXCEPT
                    !.calls = Append(@, Ev("handleStanza", nodeRecv.tagName)),
                    !.lastIn = IF IsRealTag(nodeRecv.tagName) THEN Incr(@) ELSE @])

\* the loop of handleTextMessageReceived over the children still to visit:
\* st is [map, lastIn, calls]
RECURSIVE ProcessStanzas(_, _)
ProcessStanzas(children, st) ==
    IF children = <<>> THEN st
    ELSE LET nodeRecv == Head(children) IN
         ProcessStanzas(Tail(children),
            IF isStreamManagementAck(nodeRecv)
            THEN [st EXCEPT !.map =
                     handleAcknowledgement(streamManagementEnabled, @, nodeRecv)]
            ELSE IF isStreamManagementReq(nodeRecv)
            THEN [st EXCEPT !.calls =
                     @ \o sendAcknowledgement(streamManagementEnabled, st.lastIn)]
            ELSE [st EXCEPT
                    !.calls = Append(@, Ev("handleStanza", nodeRecv.tagName)),
                    !.lastIn = IF IsRealTag(nodeRecv.tagName) THEN Incr(@) ELSE @])

(***************************************************************************)
(* The history variables.                                                  *)
(***************************************************************************)
\* the registered stanzas left once an acknowledgement of sequenceNumber is applied
Uncovered(outs, sequenceNumber) ==
    SelectSeq(outs, LAMBDA e : e.seq > sequenceNumber)

\* the registered stanzas left once the acknowledgements among children are applied
RECURSIVE UncoveredByAll(_, _)
UncoveredByAll(outs, children) ==
    IF children = <<>> THEN outs
    ELSE UncoveredByAll(
            IF isStreamManagementAck(Head(children)) /\ streamManagementEnabled
            THEN Uncovered(outs, Head(children).h) ELSE outs,
            Tail(children))

\* the registered stanzas numbered afresh from 1, in their order
Renumbered(outs) ==
    [i \in 1..Len(outs) |-> [seq |-> i, text |-> outs[i].text]]

\* how many real stanzas the calls hand to handleStanza
RealDispatches(calls) ==
    Len(SelectSeq(calls, LAMBDA e : e.ev = "handleStanza"
                                      /\ e.text \in {"message", "presence", "iq"}))

\* the record of an operation: its name, its argument (for disconnectFromHost,
\* the management flag it found), what it returned (FALSE when it returns
\* nothing), and whether it follows a disconnectFromHost() that found management
\* enabled
Called(op, arg, ret) ==
    [op |-> op, arg |-> arg, ret |-> ret,
     follows |-> IF call.op = "disconnectFromHost" /\ call.arg
                 THEN "managedDisconnect" ELSE ""]

NoRun == [fresh |-> FALSE, texts |-> <<>>]
NoFeed == [doc |-> <<>>, rest |-> <<>>, events |-> <<>>]

(***************************************************************************)
(* Inputs.                                                                 *)
(***************************************************************************)
\* the packets handed to sendPacket: the text toXml writes and isXmppStanza()
Packets ==
    { [xml |-> "<message id='X'/>", isXmppStanza |-> TRUE],
      [xml |-> "<iq id='Y'/>", isXmppStanza |-> TRUE],
      [xml |-> "<enable xmlns='urn:xmpp:sm:3'/>", isXmppStanza |-> FALSE] }

\* the fragments the transport delivers
Chunks ==
    { <<WS>>,
      <<SOPEN, GT>>,
      <<Open("message", 0)>>,
      <<SC>>,
      <<Open("message", 0), SC>>,
      <<Open("features", 0), SC>>,
      <<Open("r", 0), SC>>,
      <<EOPEN, GT>>,
      <<SOPEN, GT, Open("presence", 0), SC>>,
      <<Open("message", 0), SC, Open("r", 0), SC, Open("iq", 0), SC>>,
      <<Open("iq", 0), SC, Open("features", 0), SC, EOPEN, GT>> }
    \cup { <<Open("a", h), SC>> : h \in 0..MaxSeq }

AckNumbers == 0..MaxSeq
Sockets == {"nullptr", "UnconnectedState", "ConnectedState"}

(***************************************************************************)
(* The state after construction.                                           *)
(***************************************************************************)
\* the state of the base object after construction
Constructed ==
    /\ dataBuffer = <<>>
    /\ streamStart = <<>>
    /\ streamManagementEnabled = FALSE
    /\ unacknowledgedStanzas = EmptyMap
    /\ lastOutgoingSequenceNumber = 0
    /\ lastIncomingSequenceNumber = 0
    /\ sendRun = NoRun
    /\ trace = <<>>
    /\ outstanding = <<>>
    /\ dispatchedReal = 0
    /\ everEnabled = FALSE

Init ==
    /\ feed = NoFeed
    /\ everEnabled = FALSE
    /\ dataBuffer = <<>>
    /\ socket = "nullptr"
    /\ streamStart = <<>>
    /\ streamManagementEnabled = FALSE
    /\ unacknowledgedStanzas = EmptyMap
    /\ lastOutgoingSequenceNumber = 0
    /\ lastIncomingSequenceNumber = 0
    /\ call = [op |-> "QXmppStream", arg |-> "", ret |-> FALSE, follows |-> ""]
    /\ sendRun = NoRun
    /\ trace = <<>>
    /\ outstanding = <<>>
    /\ dispatchedReal = 0

(***************************************************************************)
(* The operations.                                                         *)
(***************************************************************************)
setSocket(s) ==
    /\ socket' = s
    /\ call' = Called("setSocket", s, FALSE)
    /\ trace' = <<>>
    /\ sendRun' = NoRun
    /\ UNCHANGED <<everEnabled, feed>>
    /\ UNCHANGED <<dataBuffer, streamStart, streamManagementEnabled,
                   unacknowledgedStanzas, lastOutgoingSequenceNumber,
                   lastIncomingSequenceNumber, outstanding, dispatchedReal>>

\* a variant that also forgets the unacknowledged stanzas
handleStart_ClearsLedger ==
    /\ streamManagementEnabled' = FALSE
    /\ dataBuffer' = <<>>
    /\ streamStart' = <<>>
    /\ trace' = <<>>
    /\ sendRun' = NoRun
    /\ UNCHANGED <<everEnabled, feed>>
    /\ unacknowledgedStanzas' = EmptyMap
    /\ outstanding' = <<>>
    /\ UNCHANGED <<lastOutgoingSequenceNumber, lastIncomingSequenceNumber,
                   dispatchedReal>>

handleStart ==
    /\ streamManagementEnabled' = FALSE
    /\ dataBuffer' = <<>>
    /\ streamStart' = <<>>
    /\ trace' = <<>>
    /\ sendRun' = NoRun
    /\ UNCHANGED <<everEnabled, feed>>
    /\ UNCHANGED <<unacknowledgedStanzas, lastOutgoingSequenceNumber,
                   lastIncomingSequenceNumber, outstanding, dispatchedReal>>

\* the socket reports connected
q_socketConnected ==
    /\ socket = "UnconnectedState"
    /\ socket' = "ConnectedState"
    /\ call' = Called("_q_socketConnected", "", FALSE)
    /\ handleStart

\* the socket reports that encryption has started
q_socketEncrypted ==
    /\ socket = "ConnectedState"
    /\ socket' = socket
    /\ call' = Called("_q_socketEncrypted", "", FALSE)
    /\ handleStart

\* the socket fails and reports an error, which is only logged
q_socketError ==
    /\ socket = "ConnectedState"
    /\ socket' = "UnconnectedState"
    /\ call' = Called("_q_socketError", "", FALSE)
    /\ trace' = <<>>
    /\ sendRun' = NoRun
    /\ UNCHANGED <<everEnabled, feed>>
    /\ UNCHANGED <<dataBuffer, streamStart, streamManagementEnabled,
                   unacknowledgedStanzas, lastOutgoingSequenceNumber,
                   lastIncomingSequenceNumber, outstanding, dispatchedReal>>

\* a variant that leaves stream management as it is
disconnectFromHost_KeepsManagement ==
    /\ UNCHANGED streamManagementEnabled
    /\ trace' = disconnectCalls
    /\ socket' = socketAfterDisconnect
    /\ call' = Called("disconnectFromHost", streamManagementEnabled, FALSE)
    /\ sendRun' = NoRun
    /\ UNCHANGED <<everEnabled, feed>>
    /\ UNCHANGED <<dataBuffer, streamStart, unacknowledgedStanzas,
                   lastOutgoingSequenceNumber, lastIncomingSequenceNumber,
                   outstanding, dispatchedReal>>

disconnectFromHost ==
    /\ streamManagementEnabled' = FALSE
    /\ trace' = disconnectCalls
    /\ socket' = socketAfterDisconnect
    /\ call' = Called("disconnectFromHost", streamManagementEnabled, FALSE)
    /\ sendRun' = NoRun
    /\ UNCHANGED <<everEnabled, feed>>
    /\ UNCHANGED <<dataBuffer, streamStart, unacknowledgedStanzas,
                   lastOutgoingSequenceNumber, lastIncomingSequenceNumber,
                   outstanding, dispatchedReal>>

\* a variant that registers every packet, a stanza or not
Registers_AnyPacket(packet) == streamManagementEnabled

\* a variant that registers a stanza only when it can be transmitted
Registers_OnlyConnected(packet) ==
    packet.isXmppStanza /\ streamManagementEnabled /\ isConnected

\* whether sendPacket registers the packet
Registers(packet) == packet.isXmppStanza /\ streamManagementEnabled

sendPacket(packet, sent) ==
    /\ Registers(packet) => lastOutgoingSequenceNumber < MaxSeq
    /\ sent \in sendDataReturns
    /\ IF Registers(packet)
       THEN /\ lastOutgoingSequenceNumber' = Incr(lastOutgoingSequenceNumber)
            /\ unacknowledgedStanzas' =
                  Insert(unacknowledgedStanzas, Incr(lastOutgoingSequenceNumber),
                         packet.xml)
            /\ outstanding' =
                  Append(outstanding, [seq |-> Incr(lastOutgoingSequenceNumber),
                                       text |-> packet.xml])
       ELSE UNCHANGED <<lastOutgoingSequenceNumber, unacknowledgedStanzas,
                        outstanding>>
    /\ trace' = sendData(packet.xml)
                  \o (IF packet.isXmppStanza
                      THEN sendAcknowledgementRequest(streamManagementEnabled)
                      ELSE <<>>)
    /\ call' = Called("sendPacket", packet, sent)
    /\ UNCHANGED <<everEnabled, feed>>
    /\ sendRun' = IF sendRun.fresh /\ packet.isXmppStanza
                  THEN [sendRun EXCEPT !.texts = Append(@, packet.xml)]
                  ELSE sendRun
    /\ UNCHANGED <<dataBuffer, socket, streamStart, streamManagementEnabled,
                   lastIncomingSequenceNumber, dispatchedReal>>

enableStreamManagement(resetSequenceNumber) ==
    LET keys == KeysAscending(DOMAIN unacknowledgedStanzas)
        st   == RenumberLoop(unacknowledgedStanzas, keys,
                             [map |-> EmptyMap, lastOut |-> 0, calls |-> <<>>])
    IN
    /\ streamManagementEnabled' = TRUE
    /\ IF resetSequenceNumber
       THEN /\ lastIncomingSequenceNumber' = 0
            /\ dispatchedReal' = 0
            /\ outstanding' = Renumbered(outstanding)
            /\ IF DOMAIN unacknowledgedStanzas # {}
               THEN /\ unacknowledgedStanzas' = st.map
                    /\ lastOutgoingSequenceNumber' = st.lastOut
                    /\ trace' = st.calls \o sendAcknowledgementRequest(TRUE)
               ELSE /\ lastOutgoingSequenceNumber' = 0
                    /\ trace' = <<>>
                    /\ UNCHANGED unacknowledgedStanzas
       ELSE /\ trace' = IF DOMAIN unacknowledgedStanzas # {}
                        THEN ResendLoop(unacknowledgedStanzas, keys)
                                \o sendAcknowledgementRequest(TRUE)
                        ELSE <<>>
            /\ UNCHANGED <<unacknowledgedStanzas, lastOutgoingSequenceNumber,
                           lastIncomingSequenceNumber, outstanding,
                           dispatchedReal>>
    /\ call' = Called("enableStreamManagement", resetSequenceNumber, FALSE)
    /\ everEnabled' = TRUE
    /\ UNCHANGED feed
    /\ sendRun' = IF resetSequenceNumber /\ DOMAIN unacknowledgedStanzas = {}
                  THEN [fresh |-> TRUE, texts |-> <<>>] ELSE NoRun
    /\ UNCHANGED <<dataBuffer, socket, streamStart>>

setAcknowledgedSequenceNumber(sequenceNumber) ==
    /\ unacknowledgedStanzas' = Acknowledge(unacknowledgedStanzas, sequenceNumber)
    /\ outstanding' = Uncovered(outstanding, sequenceNumber)
    /\ call' = Called("setAcknowledgedSequenceNumber", sequenceNumber, FALSE)
    /\ trace' = <<>>
    /\ sendRun' = NoRun
    /\ UNCHANGED <<everEnabled, feed>>
    /\ UNCHANGED <<dataBuffer, socket, streamStart, streamManagementEnabled,
                   lastOutgoingSequenceNumber, lastIncomingSequenceNumber,
                   dispatchedReal>>

\* variant that looks for a stream start also when one is captured
matchedStart_AnyTime(buf) == startStreamRegex(buf)

\* d->streamStart.isEmpty() && d->dataBuffer.contains(startStreamRegex): the
\* length of the stream start found in the buffer, 0 when none is looked for or
\* none is found
matchedStart(buf) == IF streamStart = <<>> THEN startStreamRegex(buf) ELSE 0

\* variant of the handler that caches the stream start as soon as the pattern
\* matches, before the document is known to be valid
handleTextMessageReceived_CachesEarly(text) ==
    LET buf         == dataBuffer \o text
        startLen    == matchedStart(buf)
        isStart     == startLen > 0
        streamEnd   == endStreamRegex(buf)
        completeXml == (IF isStart THEN buf ELSE streamStart \o buf)
                          \o (IF streamEnd THEN <<>> ELSE streamRootElementEnd)
        doc         == setContent(completeXml)
        st          == ProcessStanzas(doc.children,
                          [map    |-> unacknowledgedStanzas,
                           lastIn |-> lastIncomingSequenceNumber,
                           calls  |-> <<>>])
    IN
    /\ socket # "nullptr"
    /\ call' = Called("handleTextMessageReceived", text, FALSE)
    /\ sendRun' = NoRun
    /\ UNCHANGED everEnabled
    /\ IF IsWhitespacePing(buf)
       THEN /\ dataBuffer' = <<>>
            /\ trace' = <<Ev("handleStanza", "")>>
            /\ UNCHANGED <<socket, streamStart, streamManagementEnabled,
                           unacknowledgedStanzas, lastIncomingSequenceNumber,
                           outstanding, dispatchedReal>>
       ELSE IF ~doc.ok
       THEN /\ dataBuffer' = buf
            /\ trace' = <<>>
            /\ streamStart' = IF isStart THEN SubSeq(buf, 1, startLen)
                                         ELSE streamStart
            /\ UNCHANGED <<socket, streamManagementEnabled,
                           unacknowledgedStanzas, lastIncomingSequenceNumber,
                           outstanding, dispatchedReal>>
       ELSE /\ st.lastIn <= MaxIncoming
            /\ dataBuffer' = <<>>
            /\ streamStart' = IF isStart THEN SubSeq(buf, 1, startLen)
                                         ELSE streamStart
            /\ unacknowledgedStanzas' = st.map
            /\ lastIncomingSequenceNumber' = st.lastIn
            /\ outstanding' = UncoveredByAll(outstanding, doc.children)
            /\ dispatchedReal' = dispatchedReal + RealDispatches(st.calls)
            /\ trace' = <<Ev("logReceived", "")>>
                          \o (IF isStart THEN <<Ev("handleStream", "")>> ELSE <<>>)
                          \o st.calls
                          \o (IF streamEnd THEN disconnectCalls ELSE <<>>)
            /\ streamManagementEnabled' =
                  IF streamEnd THEN FALSE ELSE streamManagementEnabled
            /\ socket' = IF streamEnd THEN socketAfterDisconnect ELSE socket
    /\ UNCHANGED lastOutgoingSequenceNumber

handleTextMessageReceived(text) ==
    LET buf         == dataBuffer \o text
        startLen    == matchedStart(buf)
        isStart     == startLen > 0
        streamEnd   == endStreamRegex(buf)
        completeXml == (IF isStart THEN buf ELSE streamStart \o buf)
                          \o (IF streamEnd THEN <<>> ELSE streamRootElementEnd)
        doc         == setContent(completeXml)
        st          == ProcessStanzas(doc.children,
                          [map    |-> unacknowledgedStanzas,
                           lastIn |-> lastIncomingSequenceNumber,
                           calls  |-> <<>>])
    IN
    /\ socket # "nullptr"
    /\ call' = Called("handleTextMessageReceived", text, FALSE)
    /\ sendRun' = NoRun
    /\ UNCHANGED everEnabled
    /\ IF IsWhitespacePing(buf)
       THEN /\ dataBuffer' = <<>>
            /\ trace' = <<Ev("handleStanza", "")>>
            /\ UNCHANGED <<socket, streamStart, streamManagementEnabled,
                           unacknowledgedStanzas, lastIncomingSequenceNumber,
                           outstanding, dispatchedReal>>
       ELSE IF ~doc.ok
       THEN /\ dataBuffer' = buf
            /\ trace' = <<>>
            /\ UNCHANGED <<socket, streamStart, streamManagementEnabled,
                           unacknowledgedStanzas, lastIncomingSequenceNumber,
                           outstanding, dispatchedReal>>
       ELSE /\ st.lastIn <= MaxIncoming
            /\ dataBuffer' = <<>>
            /\ streamStart' = IF isStart THEN SubSeq(buf, 1, startLen)
                                         ELSE streamStart
            /\ unacknowledgedStanzas' = st.map
            /\ lastIncomingSequenceNumber' = st.lastIn
            /\ outstanding' = UncoveredByAll(outstanding, doc.children)
            /\ dispatchedReal' = dispatchedReal + RealDispatches(st.calls)
            /\ trace' = <<Ev("logReceived", "")>>
                          \o (IF isStart THEN <<Ev("handleStream", "")>> ELSE <<>>)
                          \o st.calls
                          \o (IF streamEnd THEN disconnectCalls ELSE <<>>)
            /\ streamManagementEnabled' =
                  IF streamEnd THEN FALSE ELSE streamManagementEnabled
            /\ socket' = IF streamEnd THEN socketAfterDisconnect ELSE socket
    /\ UNCHANGED lastOutgoingSequenceNumber

\* the peer sends a well-formed stream: its header first and once, and after the
\* head of an element only whitespace or the end of that element
PeerSends(text) ==
    IF dataBuffer # <<>> THEN text \in {<<SC>>, <<WS>>}
    ELSE IF streamStart = <<>> THEN text[1] = SOPEN
    ELSE text[1] # SOPEN /\ text # <<SC>>

\* the transport delivers a fragment of the peer's stream
textMessageReceived(text) ==
    /\ PeerSends(text)
    /\ Len(dataBuffer) < MaxBuffer
    /\ handleTextMessageReceived(text)
    /\ UNCHANGED feed

Next ==
    \/ \E s \in Sockets : setSocket(s)
    \/ q_socketConnected
    \/ q_socketEncrypted
    \/ q_socketError
    \/ disconnectFromHost
    \/ \E packet \in Packets, sent \in BOOLEAN : sendPacket(packet, sent)
    \/ \E resetSequenceNumber \in BOOLEAN :
          enableStreamManagement(resetSequenceNumber)
    \/ \E sequenceNumber \in AckNumbers :
          setAcknowledgedSequenceNumber(sequenceNumber)
    \/ \E text \in Chunks : textMessageReceived(text)

Spec == Init /\ [][Next]_vars

\* ---------------------------------------------------------------------------
\* Fragmented delivery.  The peer's stream up to some point is one document;
\* the transport hands it to handleTextMessageReceived in fragments of any
\* lengths.  Management is never enabled here.

\* the streams the peer sends: open and closed ones, with a declaration, with
\* whitespace before the root, between elements and after the closing tag, with
\* a stream:stream element inside the root, and one with a second opening tag
\* that is never closed
Documents ==
    { <<SOPEN, GT, Open("message", 0), SC>>,
      <<SOPEN, GT, WS, Open("features", 0), SC, WS, Open("x", 0), SC>>,
      <<DECL, WS, SOPEN, GT, Open("features", 0), SC, EOPEN, GT>>,
      <<WS, SOPEN, GT, Open("iq", 0), SC, WS, EOPEN, GT>>,
      <<SOPEN, GT, Open("features", 0), SC, EOPEN, GT, WS>>,
      <<SOPEN, GT, Open("features", 0), SC, SOPEN, GT, EOPEN, GT, Open("x", 0), SC>>,
      <<SOPEN, GT, Open("features", 0), SC, SOPEN, GT, Open("x", 0), SC>> }

\* the calls of a step that the application or the transport sees
Kept(calls) == SelectSeq(calls, LAMBDA e : e.ev # "logReceived")

InitFramer ==
    /\ Constructed
    /\ socket = "ConnectedState"
    /\ call = [op |-> "QXmppStream", arg |-> "", ret |-> FALSE, follows |-> ""]
    /\ \E d \in Documents : feed = [doc |-> d, rest |-> d, events |-> <<>>]

\* the transport delivers the next n tokens of the document
deliver(n) ==
    /\ handleTextMessageReceived(SubSeq(feed.rest, 1, n))
    /\ feed' = [feed EXCEPT !.rest = SubSeq(@, n + 1, Len(@)),
                            !.events = @ \o Kept(trace')]

\* once a document is delivered the connection is set up again
reconnected ==
    /\ feed.rest = <<>>
    /\ q_socketConnected \/ q_socketEncrypted

\* the peer begins a new stream on the restarted connection
newDocument(d) ==
    /\ feed.rest = <<>>
    /\ call.op \in {"_q_socketConnected", "_q_socketEncrypted"}
    /\ feed' = [doc |-> d, rest |-> d, events |-> <<>>]
    /\ UNCHANGED <<dataBuffer, socket, streamStart, streamManagementEnabled,
                   unacknowledgedStanzas, lastOutgoingSequenceNumber,
                   lastIncomingSequenceNumber, call, trace, outstanding,
                   dispatchedReal, sendRun, everEnabled>>

NextFramer ==
    \/ \E n \in 1..Len(feed.rest) : deliver(n)
    \/ reconnected
    \/ \E d \in Documents : newDocument(d)

SpecFramer == InitFramer /\ [][NextFramer]_vars

(***************************************************************************)
(* What the claims speak of.                                               *)
(***************************************************************************)
\* the entries of a map above a sequence number, contents as they are
EntriesAbove(map, seq) == [k \in {x \in DOMAIN map : x > seq} |-> map[k]]

Max2(a, b) == IF a >= b THEN a ELSE b

\* the elements of a set of numbers as the strictly increasing sequence
Sorted(S) ==
    CHOOSE q \in [1..Cardinality(S) -> S] :
        \A i, j \in 1..Cardinality(S) : i < j => q[i] < q[j]

\* the contents of a map in ascending order of key
Contents(map) ==
    [i \in 1..Cardinality(DOMAIN map) |-> map[Sorted(DOMAIN map)[i]]]

\* the texts of the events of one kind among calls
TextsOf(calls, ev) ==
    LET es == SelectSeq(calls, LAMBDA e : e.ev = ev)
    IN [i \in 1..Len(es) |-> es[i].text]

\* the sequence numbers the ack frames of a token sequence carry
AckFrames(toks) ==
    { toks[i].h : i \in { j \in 1..Len(toks) : toks[j].t = "head" /\ toks[j].tag = "a" } }

Largest(S) == CHOOSE x \in S : \A y \in S : y <= x

\* the step parsed a document out of the buffer
ParsedStep == call'.op = "handleTextMessageReceived"
                 /\ \E i \in 1..Len(trace') : trace'[i].ev = "logReceived"

SendsReal == call.op = "sendPacket" /\ call.arg.isXmppStanza
SendsRealStep == call'.op = "sendPacket" /\ call'.arg.isXmppStanza

HoldsText(map, text) == \E k \in DOMAIN map : map[k] = text

(***************************************************************************)
(* C1: acknowledging seq leaves exactly the entries numbered above seq,    *)
(* contents unchanged, whether called directly or reached by an ack frame  *)
(* while management is enabled; acknowledging 0 changes nothing;           *)
(* acknowledging a then b leaves what acknowledging max(a, b) leaves; the  *)
(* two counters are not changed.                                           *)
(***************************************************************************)
C1_AcknowledgeIsCumulative ==
    [][ /\ call'.op = "setAcknowledgedSequenceNumber" =>
            /\ unacknowledgedStanzas' =
                  EntriesAbove(unacknowledgedStanzas, call'.arg)
            /\ call'.arg = 0 => unacknowledgedStanzas' = unacknowledgedStanzas
            /\ UNCHANGED <<lastOutgoingSequenceNumber, lastIncomingSequenceNumber>>
            /\ \A b \in AckNumbers :
                  Acknowledge(unacknowledgedStanzas', b)
                     = EntriesAbove(unacknowledgedStanzas, Max2(call'.arg, b))
        /\ ( /\ ParsedStep
             /\ streamManagementEnabled
             /\ AckFrames(dataBuffer \o call'.arg) # {} ) =>
            /\ unacknowledgedStanzas' =
                  EntriesAbove(unacknowledgedStanzas,
                               Largest(AckFrames(dataBuffer \o call'.arg)))
            /\ UNCHANGED lastOutgoingSequenceNumber
      ]_vars

\* an acknowledgement of 2 has removed the entries 1 and 2 and left entry 3
C1_Witness ==
    /\ call.op = "setAcknowledgedSequenceNumber"
    /\ call.arg = 2
    /\ DOMAIN unacknowledgedStanzas = {3}
    /\ lastOutgoingSequenceNumber = 3

(***************************************************************************)
(* C2: from enableStreamManagement(true) on an empty map on, while only    *)
(* sendPacket runs, the k-th real stanza sent is registered under sequence *)
(* number k, in call order; a packet that is no stanza changes neither the *)
(* counter nor the map.                                                    *)
(***************************************************************************)
C2_SendNumbersInCallOrder ==
    sendRun.fresh =>
        /\ lastOutgoingSequenceNumber = Len(sendRun.texts)
        /\ DOMAIN unacknowledgedStanzas = 1..Len(sendRun.texts)
        /\ \A k \in 1..Len(sendRun.texts) :
              unacknowledgedStanzas[k] = sendRun.texts[k]

\* three real stanzas and a packet that is no stanza have been sent in a run
C2_Witness ==
    /\ sendRun.fresh
    /\ sendRun.texts = <<"<message id='X'/>", "<iq id='Y'/>", "<message id='X'/>">>
    /\ call.op = "sendPacket"
    /\ ~call.arg.isXmppStanza

(***************************************************************************)
(* C3: with management enabled and no connected socket, sendPacket of a    *)
(* real stanza returns false and the map holds a new entry                 *)
(* lastOutgoingSequenceNumber + 1 -> the serialized text.                  *)
(***************************************************************************)
C3_FailedSendStaysRegistered ==
    [][ ( /\ SendsRealStep
          /\ streamManagementEnabled
          /\ socket # "ConnectedState" ) =>
            /\ call'.ret = FALSE
            /\ lastOutgoingSequenceNumber + 1 \notin DOMAIN unacknowledgedStanzas
            /\ lastOutgoingSequenceNumber' = lastOutgoingSequenceNumber + 1
            /\ unacknowledgedStanzas' =
                  [k \in DOMAIN unacknowledgedStanzas
                            \cup {lastOutgoingSequenceNumber + 1} |->
                      IF k = lastOutgoingSequenceNumber + 1 THEN call'.arg.xml
                      ELSE unacknowledgedStanzas[k]]
            /\ TextsOf(trace', "sendTextMessage") = <<>>
      ]_vars

\* a real stanza was sent with management enabled and no connected socket
C3_Witness ==
    /\ SendsReal
    /\ call.ret = FALSE
    /\ streamManagementEnabled
    /\ socket # "ConnectedState"
    /\ lastOutgoingSequenceNumber = 2
    /\ DOMAIN unacknowledgedStanzas = {1, 2}
    /\ unacknowledgedStanzas[2] = call.arg.xml

(***************************************************************************)
(* C4, as claimed: with management enabled, after disconnectFromHost() a   *)
(* following sendPacket of a real stanza Y returns false and the map holds *)
(* an entry for Y.                                                         *)
(***************************************************************************)
C4_Original ==
    (SendsReal /\ call.follows = "managedDisconnect") =>
        /\ call.ret = FALSE
        /\ HoldsText(unacknowledgedStanzas, call.arg.xml)

(***************************************************************************)
(* C4, amended: with management enabled, after disconnectFromHost() a      *)
(* following sendPacket of a real stanza Y returns false and leaves the    *)
(* map and lastOutgoingSequenceNumber as they were: Y is not registered,   *)
(* because disconnectFromHost() has switched management off.               *)
(***************************************************************************)
C4_SendAfterDisconnectNotRegistered ==
    [][ ( /\ call.op = "disconnectFromHost"
          /\ call.arg
          /\ SendsRealStep ) =>
            /\ call'.ret = FALSE
            /\ ~streamManagementEnabled
            /\ UNCHANGED <<unacknowledgedStanzas, lastOutgoingSequenceNumber>>
            /\ TextsOf(trace', "logSent") = <<call'.arg.xml>>
      ]_vars

\* a real stanza was sent right after a disconnectFromHost() that found
\* management enabled and stanzas unacknowledged
C4_Witness ==
    /\ SendsReal
    /\ call.follows = "managedDisconnect"
    /\ call.ret = FALSE
    /\ DOMAIN unacknowledgedStanzas = {1}
    /\ unacknowledgedStanzas[1] # call.arg.xml

(***************************************************************************)
(* C5: a connection restart (the socket connected, or its encryption       *)
(* started) empties the buffer, clears the captured stream start and       *)
(* switches management off, and leaves the map and both counters as they   *)
(* were; so do a failing socket and the attaching of a socket.             *)
(***************************************************************************)
C5_RestartKeepsLedger ==
    [][ /\ call'.op \in {"_q_socketConnected", "_q_socketEncrypted"} =>
            /\ dataBuffer' = <<>>
            /\ streamStart' = <<>>
            /\ streamManagementEnabled' = FALSE
            /\ UNCHANGED <<unacknowledgedStanzas, lastOutgoingSequenceNumber,
                           lastIncomingSequenceNumber>>
        /\ call'.op \in {"_q_socketError", "setSocket"} =>
            UNCHANGED <<unacknowledgedStanzas, lastOutgoingSequenceNumber,
                        lastIncomingSequenceNumber>>
      ]_vars

\* the socket has connected again with two stanzas unacknowledged
C5_Witness ==
    /\ call.op = "_q_socketConnected"
    /\ DOMAIN unacknowledgedStanzas = {2, 3}
    /\ lastIncomingSequenceNumber = 2
    /\ ~streamManagementEnabled

(***************************************************************************)
(* C6: enableStreamManagement(true) on a map of n entries at ascending     *)
(* sequence numbers with contents c1..cn leaves the keys 1..n mapped to    *)
(* c1..cn in that order, lastOutgoingSequenceNumber = n and                *)
(* lastIncomingSequenceNumber = 0, sends c1..cn in that order and then     *)
(* exactly one request frame (all of it reaching the socket when it is     *)
(* connected, none of it otherwise).                                       *)
(***************************************************************************)
C6_EnableWithResetRenumbers ==
    [][ ( /\ call'.op = "enableStreamManagement"
          /\ call'.arg = TRUE
          /\ DOMAIN unacknowledgedStanzas # {} ) =>
            LET n == Cardinality(DOMAIN unacknowledgedStanzas) IN
            /\ DOMAIN unacknowledgedStanzas' = 1..n
            /\ \A i \in 1..n :
                  unacknowledgedStanzas'[i] = Contents(unacknowledgedStanzas)[i]
            /\ lastOutgoingSequenceNumber' = n
            /\ lastIncomingSequenceNumber' = 0
            /\ streamManagementEnabled'
            /\ TextsOf(trace', "logSent")
                  = Contents(unacknowledgedStanzas) \o <<ReqXml>>
            /\ TextsOf(trace', "sendTextMessage")
                  = IF socket = "ConnectedState"
                    THEN Contents(unacknowledgedStanzas) \o <<ReqXml>> ELSE <<>>
      ]_vars

\* management was enabled with reset while two stanzas were unacknowledged and
\* the socket was connected
C6_Witness ==
    /\ call.op = "enableStreamManagement"
    /\ call.arg = TRUE
    /\ lastOutgoingSequenceNumber = 2
    /\ unacknowledgedStanzas = <<"<iq id='Y'/>", "<message id='X'/>">>
    /\ TextsOf(trace, "sendTextMessage")
          = <<"<iq id='Y'/>", "<message id='X'/>", ReqXml>>
    /\ outstanding[1].seq = 1

(***************************************************************************)
(* C7: enableStreamManagement(false) on a non-empty map sends every stored *)
(* text once, in ascending order of sequence number, and then exactly one  *)
(* request frame; it leaves the map and both counters as they were and     *)
(* changes nothing but the management flag, which becomes true.            *)
(***************************************************************************)
C7_EnableWithoutResetResends ==
    [][ ( /\ call'.op = "enableStreamManagement"
          /\ call'.arg = FALSE
          /\ DOMAIN unacknowledgedStanzas # {} ) =>
            /\ TextsOf(trace', "logSent")
                  = Contents(unacknowledgedStanzas) \o <<ReqXml>>
            /\ TextsOf(trace', "sendTextMessage")
                  = IF socket = "ConnectedState"
                    THEN Contents(unacknowledgedStanzas) \o <<ReqXml>> ELSE <<>>
            /\ streamManagementEnabled'
            /\ UNCHANGED <<unacknowledgedStanzas, lastOutgoingSequenceNumber,
                           lastIncomingSequenceNumber, dataBuffer, streamStart,
                           socket>>
      ]_vars

\* management was enabled without reset with the entries 2 and 3, of different
\* contents, unacknowledged
C7_Witness ==
    /\ call.op = "enableStreamManagement"
    /\ call.arg = FALSE
    /\ DOMAIN unacknowledgedStanzas = {2, 3}
    /\ unacknowledgedStanzas[2] # unacknowledgedStanzas[3]
    /\ lastIncomingSequenceNumber = 1
    /\ Len(TextsOf(trace, "sendTextMessage")) = 3

(***************************************************************************)
(* C8, as claimed: every enableStreamManagement, for either value of the   *)
(* flag and for any map, the empty one included, sets management enabled   *)
(* and finishes with exactly one request frame; with an empty map nothing  *)
(* is sent again.                                                          *)
(***************************************************************************)
C8_Original ==
    [][ call'.op = "enableStreamManagement" =>
            LET sent == TextsOf(trace', "logSent") IN
            /\ streamManagementEnabled'
            /\ sent # <<>>
            /\ sent[Len(sent)] = ReqXml
            /\ Len(SelectSeq(sent, LAMBDA t : t = ReqXml)) = 1
            /\ DOMAIN unacknowledgedStanzas = {} => sent = <<ReqXml>>
      ]_vars

(***************************************************************************)
(* C8, amended: every enableStreamManagement sets management enabled; on a *)
(* non-empty map it finishes with exactly one request frame; on an empty   *)
(* map it sends nothing at all, neither a stanza nor a request frame.      *)
(***************************************************************************)
C8_EnableRequestsOnlyWithEntries ==
    [][ call'.op = "enableStreamManagement" =>
            LET sent == TextsOf(trace', "logSent") IN
            /\ streamManagementEnabled'
            /\ IF DOMAIN unacknowledgedStanzas = {}
               THEN trace' = <<>>
               ELSE /\ sent[Len(sent)] = ReqXml
                    /\ Len(SelectSeq(sent, LAMBDA t : t = ReqXml)) = 1
      ]_vars

\* management has just been enabled on an empty map, over a connected socket
C8_Witness ==
    /\ call.op = "enableStreamManagement"
    /\ unacknowledgedStanzas = EmptyMap
    /\ socket = "ConnectedState"
    /\ streamManagementEnabled
    /\ trace = <<>>
    /\ lastOutgoingSequenceNumber > 0

(***************************************************************************)
(* C9, as claimed: in every reachable state the contents of the map, in    *)
(* ascending order of sequence number, are the texts of the real stanzas   *)
(* passed to sendPacket that no acknowledgement has covered, in send       *)
(* order: every real stanza passed to sendPacket enters the map, and an    *)
(* entry leaves it only by an acknowledgement.                             *)
(***************************************************************************)
C9_Original ==
    [][ /\ Contents(unacknowledgedStanzas')
              = [i \in 1..Len(outstanding') |-> outstanding'[i].text]
        /\ SendsRealStep =>
              Contents(unacknowledgedStanzas')
                 = Append(Contents(unacknowledgedStanzas), call'.arg.xml)
      ]_vars

(***************************************************************************)
(* C9, amended: in every reachable state the map holds, under their        *)
(* sequence numbers and in send order, exactly the real stanzas passed to  *)
(* sendPacket while management was enabled that no acknowledgement has     *)
(* covered since; a real stanza passed to sendPacket while management is   *)
(* off is never entered.                                                   *)
(***************************************************************************)
C9_LedgerIsRegisteredUnacknowledged ==
    /\ Sorted(DOMAIN unacknowledgedStanzas)
          = [i \in 1..Len(outstanding) |-> outstanding[i].seq]
    /\ Contents(unacknowledgedStanzas)
          = [i \in 1..Len(outstanding) |-> outstanding[i].text]

\* after a real stanza sent with management off, the map holds the two stanzas
\* that were registered and are not acknowledged
C9_Witness ==
    /\ SendsReal
    /\ ~streamManagementEnabled
    /\ Len(outstanding) = 2
    /\ outstanding[1].seq = 2
    /\ outstanding[1].text # outstanding[2].text

(***************************************************************************)
(* C10, as claimed: lastIncomingSequenceNumber is incremented by one       *)
(* exactly when a child is dispatched to handleStanza, is a message, a     *)
(* presence or an iq, and management is enabled; dispatching a real stanza *)
(* while management is off does not change it.                             *)
(***************************************************************************)
C10_Original ==
    [][ call'.op = "handleTextMessageReceived" =>
            lastIncomingSequenceNumber' =
                lastIncomingSequenceNumber
                  + (IF streamManagementEnabled THEN RealDispatches(trace') ELSE 0)
      ]_vars

(***************************************************************************)
(* C10, amended: lastIncomingSequenceNumber is incremented by one exactly  *)
(* when a child is dispatched to handleStanza and is a message, a presence *)
(* or an iq, whether management is enabled or not; other stanzas, ack and  *)
(* request frames and whitespace pings do not change it, and only          *)
(* enableStreamManagement(true) zeroes it, so it equals the number of real *)
(* stanzas dispatched since it was last zeroed.                            *)
(***************************************************************************)
C10_IncomingCountsEveryRealDispatch ==
    [][ /\ call'.op = "handleTextMessageReceived" =>
              lastIncomingSequenceNumber' =
                  lastIncomingSequenceNumber + RealDispatches(trace')
        /\ ( call'.op = "enableStreamManagement" /\ call'.arg = TRUE ) =>
              lastIncomingSequenceNumber' = 0
        /\ ( /\ call'.op # "handleTextMessageReceived"
             /\ ~(call'.op = "enableStreamManagement" /\ call'.arg = TRUE) ) =>
              UNCHANGED lastIncomingSequenceNumber
        /\ lastIncomingSequenceNumber' = dispatchedReal'
      ]_vars

\* a document of two real stanzas around a request frame was dispatched while
\* management was off
C10_Witness ==
    /\ call.op = "handleTextMessageReceived"
    /\ ~streamManagementEnabled
    /\ RealDispatches(trace) = 2
    /\ lastIncomingSequenceNumber = 2
    /\ TextsOf(trace, "logSent") = <<>>

\* the element heads of a token sequence from position i on, in order: the
\* children of the document when it parses; an opening stream tag after the
\* root's is the head of a child
RECURSIVE HeadsFrom(_, _, _)
HeadsFrom(toks, i, inRoot) ==
    IF i > Len(toks) THEN <<>>
    ELSE IF toks[i].t = "head" THEN <<toks[i]>> \o HeadsFrom(toks, i + 1, inRoot)
    ELSE IF toks[i].t = "sopen"
    THEN (IF inRoot THEN <<Open("stream:stream", 0)>> ELSE <<>>)
            \o HeadsFrom(toks, i + 1, TRUE)
    ELSE HeadsFrom(toks, i + 1, inRoot)

HeadsOf(toks) == HeadsFrom(toks, 1, FALSE)

\* what a transmitted frame looks like from outside: logged, and written to the
\* transport when it is connected
Transmitted(text, connected) ==
    <<Ev("logSent", text)>>
        \o (IF connected THEN <<Ev("sendTextMessage", text)>> ELSE <<>>)

\* the calls a document's children must cause, in document order, starting from
\* incoming count n: an acknowledgement frame causes none, a request frame an
\* acknowledgement carrying the count reached so far (only while management is
\* enabled), anything else a dispatch, which counts when it is a real stanza
RECURSIVE ChildEvents(_, _, _, _)
ChildEvents(heads, n, enabled, connected) ==
    IF heads = <<>> THEN <<>>
    ELSE LET e == Head(heads) IN
         IF e.tag = "a" THEN ChildEvents(Tail(heads), n, enabled, connected)
         ELSE IF e.tag = "r"
         THEN (IF enabled THEN Transmitted(AckXml(n), connected) ELSE <<>>)
                 \o ChildEvents(Tail(heads), n, enabled, connected)
         ELSE <<Ev("handleStanza", e.tag)>>
                 \o ChildEvents(Tail(heads),
                                IF e.tag \in {"message", "presence", "iq"}
                                THEN n + 1 ELSE n,
                                enabled, connected)

\* the dispatches and the frames sent by a step, the closing tag left out
DispatchesAndFrames(calls) ==
    SelectSeq(calls, LAMBDA e : \/ e.ev = "handleStanza"
                                \/ /\ e.ev \in {"logSent", "sendTextMessage"}
                                   /\ e.text # closingTag)

\* C11: when a request frame is met while the children of a parsed document are
\* visited and management is enabled, an acknowledgement frame is sent at that
\* point of the iteration, after the dispatches of the children before it and
\* before those of the children after it, and it carries the incoming count
\* reached there: the real stanzas before the request in the same document are
\* counted, those after it are not.
C11_AckCarriesCountAtRequest ==
    [][ParsedStep /\ streamManagementEnabled
        => DispatchesAndFrames(trace')
             = ChildEvents(HeadsFrom(dataBuffer \o call'.arg, 1,
                                     streamStart # <<>>),
                           lastIncomingSequenceNumber, TRUE, isConnected)]_vars

\* a document message, request, iq has been handled with management enabled: the
\* acknowledgement sent between the two dispatches carries 1, the count ends at 2
C11_Witness ==
    /\ call.op = "handleTextMessageReceived"
    /\ streamManagementEnabled
    /\ lastIncomingSequenceNumber = 2
    /\ trace = <<Ev("logReceived", ""), Ev("handleStanza", "message"),
                 Ev("logSent", AckXml(1)), Ev("sendTextMessage", AckXml(1)),
                 Ev("handleStanza", "iq")>>

\* C12 as stated: while management is disabled no acknowledgement removes an
\* entry, neither one arriving as a frame nor a direct call of
\* setAcknowledgedSequenceNumber.
C12_Original ==
    [][~streamManagementEnabled
         /\ (ParsedStep \/ call'.op = "setAcknowledgedSequenceNumber")
        => unacknowledgedStanzas' = unacknowledgedStanzas]_vars

\* C12: while management is disabled an incoming document, whatever
\* acknowledgement frames it carries, removes nothing from the map of
\* unacknowledged stanzas; a direct call of setAcknowledgedSequenceNumber(seq)
\* does not look at the flag and removes every entry numbered <= seq.
C12_DisabledIgnoresFramesNotDirectCalls ==
    [][~streamManagementEnabled
        => /\ ParsedStep => unacknowledgedStanzas' = unacknowledgedStanzas
           /\ call'.op = "setAcknowledgedSequenceNumber"
                => unacknowledgedStanzas'
                     = EntriesAbove(unacknowledgedStanzas, call'.arg)]_vars

\* an acknowledgement frame covering a kept entry has just been handled while
\* management was disabled, and the entry is still there
C12_Witness ==
    /\ call.op = "handleTextMessageReceived"
    /\ ~streamManagementEnabled
    /\ \E h \in AckFrames(call.arg) :
          \E k \in DOMAIN unacknowledgedStanzas : k <= h
    /\ \E i \in 1..Len(trace) : trace[i].ev = "logReceived"

\* the texts of stream-management frames this side can send
IsFrameText(text) ==
    text = ReqXml \/ \E n \in 0..MaxIncoming : text = AckXml(n)

\* C13: as long as enableStreamManagement has never been called, whatever was
\* sent, received (acknowledgement and request frames included), connected or
\* disconnected, the map of unacknowledged stanzas is empty,
\* lastOutgoingSequenceNumber is 0, no acknowledgement frame and no request frame
\* is transmitted, and sendPacket transmits exactly the serialized packet and
\* returns what the transport returned (failure without a connected transport).
C13_NeverEnabledIsPlain ==
    ~everEnabled
    => /\ ~streamManagementEnabled
       /\ unacknowledgedStanzas = EmptyMap
       /\ lastOutgoingSequenceNumber = 0
       /\ \A i \in 1..Len(trace) : ~IsFrameText(trace[i].text)
       /\ call.op = "sendPacket"
            => /\ trace = Transmitted(call.arg.xml, isConnected)
               /\ call.ret => isConnected

\* never enabled: two real stanzas came in and a real stanza has just been sent
\* successfully
C13_Witness ==
    /\ ~everEnabled
    /\ lastIncomingSequenceNumber = 2
    /\ call.op = "sendPacket"
    /\ call.arg.isXmppStanza
    /\ call.ret

\* the last text of a token sequence is the closing tag of the stream
EndsWithMarker(d) ==
    Len(d) >= 2 /\ d[Len(d) - 1].t = "eopen" /\ d[Len(d)].t = "gt"

\* d is a stream document: well formed as it is, or once its root is closed
IsStreamDocument(d) ==
    setContent(d).ok \/ setContent(d \o streamRootElementEnd).ok

\* d delivered in one piece is parsed
WholeParses(d) ==
    setContent(IF EndsWithMarker(d) THEN d ELSE d \o streamRootElementEnd).ok

\* the calls made when d is delivered in one piece to a fresh stream on a
\* connected transport with management off: the stream is established, the
\* children are dispatched in order, and a stream that ends is shut down
WholeFeedEvents(d) ==
    IF WholeParses(d)
    THEN <<Ev("handleStream", "")>>
            \o ChildEvents(HeadsOf(d), 0, FALSE, TRUE)
            \o (IF EndsWithMarker(d)
                THEN Transmitted(closingTag, TRUE)
                        \o <<Ev("flush", ""), Ev("disconnectFromHost", "")>>
                ELSE <<>>)
    ELSE <<>>

Ping == Ev("handleStanza", "")
WithoutPings(calls) == SelectSeq(calls, LAMBDA e : e # Ping)
Pings(calls) == Len(SelectSeq(calls, LAMBDA e : e = Ping))
WhitespaceIn(d) == Len(SelectSeq(d, LAMBDA t : t.t = "ws"))

\* C14 as stated: a stream document delivered to a fresh stream in fragments of
\* any lengths causes the same calls, in the same order, as the document
\* delivered in one piece; no fragment boundary adds, drops or reorders a call.
C14_Original ==
    feed.rest = <<>> /\ IsStreamDocument(feed.doc)
    => feed.events = WholeFeedEvents(feed.doc)

\* C14: a stream document that is parsed when delivered in one piece causes, when
\* delivered to a fresh stream in fragments of any lengths, the same dispatches
\* of elements, the same stream-established call and the same shutdown, in the
\* same order; what fragmentation adds is ping calls (the stanza handler called
\* with a null element), at most one for each whitespace text of the document.
C14_FragmentsAddOnlyPings ==
    feed.rest = <<>> /\ WholeParses(feed.doc)
    => /\ WithoutPings(feed.events) = WholeFeedEvents(feed.doc)
       /\ Pings(feed.events) <= WhitespaceIn(feed.doc)

\* a document with whitespace between its elements has been delivered with each
\* whitespace in a fragment of its own: both elements were dispatched in order,
\* and each whitespace fragment added a ping
C14_Witness ==
    /\ feed.rest = <<>>
    /\ feed.doc = <<SOPEN, GT, WS, Open("features", 0), SC, WS, Open("x", 0), SC>>
    /\ feed.events = <<Ev("handleStream", ""), Ping, Ev("handleStanza", "features"),
                       Ping, Ev("handleStanza", "x")>>

\* a received text that is not empty and holds nothing but whitespace
AllWhitespace(text) ==
    text # <<>> /\ \A i \in 1..Len(text) : text[i].t = "ws"

\* what a step of handleTextMessageReceived leaves alone when it only buffers
\* or only reports a ping
FramerQuiet ==
    UNCHANGED <<socket, streamStart, streamManagementEnabled,
                unacknowledgedStanzas, lastOutgoingSequenceNumber,
                lastIncomingSequenceNumber>>

HandleStreams(calls) == Len(SelectSeq(calls, LAMBDA e : e.ev = "handleStream"))
Logged(calls) == \E i \in 1..Len(calls) : calls[i].ev = "logReceived"

\* a step of the handler that neither reported a ping nor parsed a document
FailedParseStep ==
    /\ call'.op = "handleTextMessageReceived"
    /\ ~AllWhitespace(dataBuffer \o call'.arg)
    /\ ~Logged(trace')

\* C16: a text that does not complete a well-formed document changes nothing but
\* the buffer: the buffer is the old buffer followed by the text, the captured
\* stream start is as before even when the start pattern matched, no callback is
\* called, nothing is sent, and counters, map, flag and transport are as before;
\* this holds for every failed parse in a row.
C16_FailedParseOnlyBuffers ==
    [][FailedParseStep
        => /\ dataBuffer' = dataBuffer \o call'.arg
           /\ trace' = <<>>
           /\ FramerQuiet]_vars

\* a second failed parse in a row: the buffer holds the opening stream tag and an
\* unfinished element, the start pattern matches it, and no stream start is
\* captured
C16_Witness ==
    /\ call.op = "handleTextMessageReceived"
    /\ trace = <<>>
    /\ Len(dataBuffer) > Len(call.arg)
    /\ startStreamRegex(dataBuffer) > 0
    /\ dataBuffer[Len(dataBuffer)].t = "head"
    /\ streamStart = <<>>
    /\ feed.events = <<>>

\* the calls of a shutdown on a transport that is attached: the closing tag is
\* sent and flushed when the transport is connected, then the transport is
\* asked to disconnect
Shutdown(connected) ==
    (IF connected
     THEN Transmitted(closingTag, TRUE) \o <<Ev("flush", "")>>
     ELSE <<>>) \o <<Ev("disconnectFromHost", "")>>

\* C17: when a document is parsed, the stream-established callback comes first
\* and only if this parse captured a stream start; then the children are handled
\* in document order; then, only if the buffer ended with the closing tag of the
\* stream, the shutdown: closing tag sent and flushed if the transport is still
\* connected, and the transport asked to disconnect, after the last child.
C17_ParsedDocumentOrder ==
    [][ParsedStep
        => trace' = <<Ev("logReceived", "")>>
                    \o (IF streamStart = <<>> /\ streamStart' # <<>>
                        THEN <<Ev("handleStream", "")>> ELSE <<>>)
                    \o ChildEvents(HeadsFrom(dataBuffer \o call'.arg, 1,
                                             streamStart # <<>>),
                                   lastIncomingSequenceNumber,
                                   streamManagementEnabled, isConnected)
                    \o (IF EndsWithMarker(dataBuffer \o call'.arg)
                        THEN Shutdown(isConnected) ELSE <<>>)]_vars

\* a document of two elements that ends the stream has been handled on a
\* connected transport: the two dispatches in order, then the shutdown
C17_Witness ==
    /\ call.op = "handleTextMessageReceived"
    /\ trace = <<Ev("logReceived", ""),
                 Ev("handleStanza", "iq"), Ev("handleStanza", "features"),
                 Ev("logSent", closingTag), Ev("sendTextMessage", closingTag),
                 Ev("flush", ""), Ev("disconnectFromHost", "")>>

\* C18: between two restarts the captured stream start is set at most once and
\* the stream-established callback is called at most once: once a start is
\* captured no later text, not even one with another opening stream tag,
\* replaces it or calls the callback again, until a restart clears it; the
\* callback is called exactly by the parse that captures the start.
C18_StreamStartCapturedOnce ==
    [][/\ streamStart # <<>>
          => /\ HandleStreams(trace') = 0
             /\ \/ streamStart' = streamStart
                \/ /\ streamStart' = <<>>
                   /\ call'.op \in {"_q_socketConnected", "_q_socketEncrypted"}
       /\ streamStart = <<>>
          => HandleStreams(trace') = (IF streamStart' # <<>> THEN 1 ELSE 0)
       /\ HandleStreams(feed'.events) <= 1]_vars

\* with a stream start captured, a text holding another opening stream tag has
\* been parsed: its stream element was dispatched like any child, the captured
\* start is the first one and the callback was called once
C18_Witness ==
    /\ call.op = "handleTextMessageReceived"
    /\ \E i \in 1..Len(call.arg) : call.arg[i].t = "sopen"
    /\ streamStart = <<SOPEN, GT>>
    /\ trace = <<Ev("logReceived", ""), Ev("handleStanza", "stream:stream"),
                 Ev("handleStanza", "x")>>
    /\ HandleStreams(feed.events) = 1

\* C19: in every reachable state every key k of the map of unacknowledged
\* stanzas satisfies 1 <= k <= lastOutgoingSequenceNumber, also after
\* enableStreamManagement(true) has renumbered the map; so the key
\* lastOutgoingSequenceNumber + 1 under which sendPacket registers is free, and
\* the keys of the registered stanzas are distinct and ascend in send order.
C19_KeysWithinCounter ==
    /\ \A k \in DOMAIN unacknowledgedStanzas :
          1 <= k /\ k <= lastOutgoingSequenceNumber
    /\ Incr(lastOutgoingSequenceNumber) \notin DOMAIN unacknowledgedStanzas
    /\ \A i \in 1..Len(outstanding) :
          /\ outstanding[i].seq \in DOMAIN unacknowledgedStanzas
          /\ unacknowledgedStanzas[outstanding[i].seq] = outstanding[i].text
          /\ \A j \in (i + 1)..Len(outstanding) :
                outstanding[i].seq < outstanding[j].seq

\* enableStreamManagement(true) has just renumbered a map of one entry: the
\* entry is under key 1 and the counter is 1
C19_Witness ==
    /\ call.op = "enableStreamManagement"
    /\ call.arg = TRUE
    /\ lastOutgoingSequenceNumber = 1
    /\ DOMAIN unacknowledgedStanzas = {1}
    /\ Len(outstanding) = 1
    /\ lastIncomingSequenceNumber = 0

\* C20: disconnectFromHost, called by the application or by the handler at the
\* end of the stream, switches management off and leaves the map, both
\* counters, the buffer and the captured stream start as they are; it sends and
\* flushes the closing tag only on a connected transport and asks the transport
\* to disconnect whenever one is attached.  Management then stays off until
\* enableStreamManagement is called, and meanwhile a real stanza that is sent is
\* not registered and no request frame follows it.
C20_DisconnectOnlySwitchesOff ==
    [][/\ call'.op = "disconnectFromHost"
          => /\ ~streamManagementEnabled'
             /\ UNCHANGED <<unacknowledgedStanzas, lastOutgoingSequenceNumber,
                            lastIncomingSequenceNumber, dataBuffer, streamStart>>
             /\ trace' = IF socket = "nullptr" THEN <<>>
                                               ELSE Shutdown(isConnected)
       /\ ParsedStep /\ EndsWithMarker(dataBuffer \o call'.arg)
          => /\ ~streamManagementEnabled'
             /\ Len(trace') >= Len(Shutdown(isConnected))
             /\ SubSeq(trace', Len(trace') - Len(Shutdown(isConnected)) + 1,
                       Len(trace')) = Shutdown(isConnected)
             /\ streamStart' # <<>>
             /\ lastOutgoingSequenceNumber' = lastOutgoingSequenceNumber
             /\ lastIncomingSequenceNumber'
                   = lastIncomingSequenceNumber + RealDispatches(trace')
             /\ (AckFrames(dataBuffer \o call'.arg) = {} \/ ~streamManagementEnabled)
                   => unacknowledgedStanzas' = unacknowledgedStanzas
       /\ ~streamManagementEnabled /\ call'.op # "enableStreamManagement"
          => ~streamManagementEnabled'
       /\ ~streamManagementEnabled /\ SendsRealStep
          => /\ unacknowledgedStanzas' = unacknowledgedStanzas
             /\ lastOutgoingSequenceNumber' = lastOutgoingSequenceNumber
             /\ trace' = Transmitted(call'.arg.xml, isConnected)]_vars

\* disconnectFromHost has just found management enabled on a connected
\* transport, with an entry in the map, a fragment in the buffer and a captured
\* stream start: all three are still there, management is off, and the calls
\* were the closing tag, the flush and the transport's disconnect
C20_Witness ==
    /\ call.op = "disconnectFromHost"
    /\ call.arg = TRUE
    /\ ~streamManagementEnabled
    /\ unacknowledgedStanzas # EmptyMap
    /\ dataBuffer # <<>>
    /\ streamStart # <<>>
    /\ lastIncomingSequenceNumber = 1
    /\ trace = Shutdown(TRUE)

====
